---- MODULE Spec2Model ----
(***************************************************************************)
(* A model of tfx.types.channel.Channel (src/tfx/types/channel.py) and of  *)
(* the AI Platform trainer Executor.Do                                     *)
(* (src/tfx/extensions/google_cloud_ai_platform/trainer/executor.py).      *)
(*                                                                         *)
(* The Channel part follows one Channel object from the constructor call   *)
(* through its life in the hands of a single-threaded caller.  Python      *)
(* collections are objects on a heap, so that the reference stored by the  *)
(* constructor and the reference held by the caller can be the same        *)
(* object.  The Executor part follows calls of Do statement by statement.  *)
(***************************************************************************)
EXTENDS Integers, Sequences, FiniteSets, TLC

(* ---------------------------- bounds ----------------------------------- *)
\* longest artifact collection a caller builds
MaxLen == 2
\* number of Executor.Do calls in one behaviour
MaxCalls == 2

(* ------------------------- Python values -------------------------------- *)
\* Artifacts, as far as Channel looks at them: an identity and a type_name.
Artifacts ==
  { [id |-> 1, type_name |-> "Model"],
    [id |-> 2, type_name |-> "Model"],
    [id |-> 3, type_name |-> "Examples"] }

\* the loop variable of _validate_type before the loop has bound it
NoArtifact == [id |-> 0, type_name |-> ""]

\* The class hierarchy the "type" argument is tested against.
ClassBase(c) ==
  CASE c = "Model"    -> "Artifact"
    [] c = "Examples" -> "Artifact"
    [] c = "Artifact" -> "object"
    [] c = "int"      -> "object"
    [] OTHER          -> "<none>"

\* Values a caller may pass as "type": None, an instance (the string
\* 'Model'), a class that is not an Artifact, and two Artifact subclasses.
TypeNone == [kind |-> "none", name |-> "NoneType"]
TypeUnset == [kind |-> "unset", name |-> ""]
TypeArgs ==
  { TypeNone,
    [kind |-> "instance", name |-> "str"],
    [kind |-> "class", name |-> "int"],
    [kind |-> "class", name |-> "Model"],
    [kind |-> "class", name |-> "Examples"] }

\* inspect.isclass(type)
IsClass(t) == t.kind = "class"

\* issubclass(c, d) for class names, by walking the bases
RECURSIVE IsSubclass(_, _)
IsSubclass(c, d) ==
  IF c = d THEN TRUE
  ELSE IF ClassBase(c) = "<none>" THEN FALSE
  ELSE IsSubclass(ClassBase(c), d)

\* variants of the constructor's type test, each a slip of the condition
IsValidTypeClassOnly(t) == IsClass(t)
IsValidTypeNotNone(t) == t.kind # "none"

\* the condition of channel.py line 72, un-negated
IsValidType(t) == IsClass(t) /\ IsSubclass(t.name, "Artifact")

\* Does the class carry a TYPE_NAME attribute (inherited from Artifact)?
HasTypeNameAttr(t) == IsClass(t) /\ IsSubclass(t.name, "Artifact")

\* type.TYPE_NAME of the Artifact subclasses
TYPE_NAME(t) == t.name

\* ChannelProducerInfo values and None
NoInfo == [isNone |-> TRUE, component_id |-> "", key |-> ""]
UnsetInfo == [isNone |-> TRUE, component_id |-> "<unset>", key |-> "<unset>"]
ChannelProducerInfo(component_id, key) ==
  [isNone |-> FALSE, component_id |-> component_id, key |-> key]
ProducerInfos ==
  { ChannelProducerInfo("Trainer", "model"),
    ChannelProducerInfo("Evaluator", "model") }

\* Exceptions: the class and the formatted message (text and argument).
NoExc == [type |-> "none", text |-> "", arg |-> ""]
ValueError(text, arg) == [type |-> "ValueError", text |-> text, arg |-> arg]
\* Python's message for a failed attribute lookup on a class ("type object
\* 'int' has no attribute ...") or on an instance ("'NoneType' object has ...")
AttributeError(owner, isType, attr) ==
  [type |-> "AttributeError",
   text |-> IF isType
              THEN "type object '" \o owner \o "' has no attribute '" \o attr \o "'"
              ELSE "'" \o owner \o "' object has no attribute '" \o attr \o "'",
   arg |-> attr]

\* '%r' % (type,): None, the string 'Model', or a class
ReprOfType(t) ==
  CASE t.kind = "none"     -> "None"
    [] t.kind = "instance" -> "'Model'"
    [] OTHER               -> "<class '" \o t.name \o "'>"

\* the two messages of channel.py
TypeArgText == "Argument \"type\" of Channel constructor must be a subclass of tfx.Artifact (got %r)."
MismatchText == "Artifacts provided do not match Channel's artifact type {}"

\* the type names a raised message carries: its one format argument
ErrorMentions(exc) == {exc.arg}

(* --------------------------- the heap ----------------------------------- *)
\* Object 1 is the collection the caller passes, object 2 the list the
\* constructor makes for "artifacts or []".
ArgObj == 1
FreshObj == 2
ObjIds == {ArgObj, FreshObj}
NoRef == 0

FreeObject == [kind |-> "free", items |-> <<>>]
ListObject(items) == [kind |-> "list", items |-> items]
IterObject(items) == [kind |-> "iter", items |-> items]

SeqsUpTo(S, n) == UNION { [1..k -> S] : k \in 0..n }

\* the collections a caller can pass: lists and one-shot iterators
ArtifactArgs ==
  { ListObject(s) : s \in SeqsUpTo(Artifacts, MaxLen) } \cup
  { IterObject(s) : s \in SeqsUpTo(Artifacts, MaxLen) }

VARIABLES
  heap,        \* ObjIds -> collection object
  self,        \* the Channel object's attributes
  ctor,        \* the frame of Channel.__init__
  held,        \* the caller holds a reference to the Channel
  callerRefs,  \* collection objects the caller holds a reference to
  ret,         \* what the caller's last operation on the Channel gave
  exec,        \* the frame of Executor.Do
  jobs         \* calls made to runner.start_aip_training

chanVars == <<heap, self, ctor, held, callerRefs, ret>>
execVars == <<exec, jobs>>
vars == <<heap, self, ctor, held, callerRefs, ret, exec, jobs>>

(* ------------------------ reading the heap ------------------------------ *)
\* bool(x) as used by "artifacts or []": None and the empty list are falsy,
\* an iterator object is always truthy.
Truthy(ref, h) ==
  /\ ref # NoRef
  /\ \/ h[ref].kind = "iter"
     \/ h[ref].kind = "list" /\ Len(h[ref].items) > 0

\* Channel.type_name (lines 83-85): self.type.TYPE_NAME, which raises
\* AttributeError when the stored type has no such attribute.
TypeNameOf(s, h) ==
  IF HasTypeNameAttr(s.type)
    THEN [exc |-> NoExc, val |-> TYPE_NAME(s.type)]
    ELSE [exc |-> AttributeError(s.type.name, IsClass(s.type), "TYPE_NAME"), val |-> ""]

\* variant of the comparison with the operator turned round
ArtifactMismatchInverted(a, tn) == a.type_name = tn

\* the condition of line 94
ArtifactMismatch(a, tn) == a.type_name # tn

\* what a "for" loop sees next in a collection: a list is read by index and
\* left alone, an iterator gives its head and loses it
HasNext(o, idx) ==
  IF o.kind = "iter" THEN Len(o.items) > 0 ELSE idx <= Len(o.items)
NextItem(o, idx) ==
  IF o.kind = "iter" THEN Head(o.items) ELSE o.items[idx]
AfterNext(o) ==
  IF o.kind = "iter" THEN [o EXCEPT !.items = Tail(o.items)] ELSE o

\* variant of a full iteration that drains lists as well
AfterIterationDrain(o) == [o EXCEPT !.items = <<>>]

\* a collection after a complete "for a in collection" pass (line 88)
AfterIteration(o) ==
  IF o.kind = "iter" THEN [o EXCEPT !.items = <<>>] ELSE o

\* the items a complete pass over the collection yields
Yielded(o) == o.items

(* ----------------------------- Init ------------------------------------- *)
BlankSelf == [type |-> TypeUnset, artifacts |-> NoRef, producer_info |-> UnsetInfo]

IdleCtor ==
  [pc |-> "idle", type |-> TypeUnset, artifacts |-> NoRef,
   producer_info |-> NoInfo, given |-> <<>>, idx |-> 1,
   artifact |-> NoArtifact, exc |-> NoExc]

NoRet == [op |-> "none", exc |-> NoExc, ref |-> NoRef, str |-> ""]

IdleExec ==
  [pc |-> "idle", call |-> 0, custom_config |-> "<unset>",
   args |-> "<unset>", job_id |-> "<unset>",
   training_inputs |-> "<unset>", got_job_id |-> "<unset>",
   exc |-> NoExc, result |-> "<unset>"]

Init ==
  /\ heap = [o \in ObjIds |-> FreeObject]
  /\ self = BlankSelf
  /\ ctor = IdleCtor
  /\ held = FALSE
  /\ callerRefs = {}
  /\ ret = NoRet
  /\ exec = IdleExec
  /\ jobs = <<>>

(* ----------------------- Channel.__init__ ------------------------------- *)
\* The caller evaluates Channel(type=t, artifacts=a, producer_info=p).  The
\* collection argument, when given, is an object the caller made and keeps.
CtorCall(t, a, p) ==
  /\ ctor.pc = "idle"
  /\ heap' = [heap EXCEPT ![ArgObj] = a]
  /\ callerRefs' = IF a.kind = "free" THEN callerRefs ELSE callerRefs \cup {ArgObj}
  /\ ctor' = [IdleCtor EXCEPT !.pc = "check_type", !.type = t,
                !.artifacts = IF a.kind = "free" THEN NoRef ELSE ArgObj,
                !.producer_info = p, !.given = a.items]
  /\ UNCHANGED <<self, held, ret, execVars>>

\* lines 72-75
CtorCheckType ==
  /\ ctor.pc = "check_type"
  /\ IF IsValidType(ctor.type)
       THEN ctor' = [ctor EXCEPT !.pc = "store"]
       ELSE ctor' = [ctor EXCEPT !.pc = "raised",
                       !.exc = ValueError(TypeArgText, ReprOfType(ctor.type))]
  /\ UNCHANGED <<heap, self, held, callerRefs, ret, execVars>>

\* lines 77-78: self.type = type; self._artifacts = artifacts or []
CtorStore ==
  /\ ctor.pc = "store"
  /\ IF Truthy(ctor.artifacts, heap)
       THEN /\ self' = [self EXCEPT !.type = ctor.type, !.artifacts = ctor.artifacts]
            /\ heap' = heap
       ELSE /\ self' = [self EXCEPT !.type = ctor.type, !.artifacts = FreshObj]
            /\ heap' = [heap EXCEPT ![FreshObj] = ListObject(<<>>)]
  /\ ctor' = [ctor EXCEPT !.pc = "validate", !.idx = 1]
  /\ UNCHANGED <<held, callerRefs, ret, execVars>>

\* lines 92-97, one turn of the loop of _validate_type
CtorValidate ==
  /\ ctor.pc = "validate"
  /\ LET o == heap[self.artifacts] IN
     IF ~HasNext(o, ctor.idx)
       THEN /\ ctor' = [ctor EXCEPT !.pc = "bind"]
            /\ heap' = heap
       ELSE LET a == NextItem(o, ctor.idx)
                tn == TypeNameOf(self, heap)
            IN /\ heap' = [heap EXCEPT ![self.artifacts] = AfterNext(o)]
               /\ IF tn.exc # NoExc
                    THEN ctor' = [ctor EXCEPT !.pc = "raised", !.artifact = a,
                                    !.exc = tn.exc]
                  ELSE IF ArtifactMismatch(a, tn.val)
                    THEN ctor' = [ctor EXCEPT !.pc = "raised", !.artifact = a,
                                    !.exc = ValueError(MismatchText, tn.val)]
                  ELSE ctor' = [ctor EXCEPT !.idx = ctor.idx + 1, !.artifact = a]
  /\ UNCHANGED <<self, held, callerRefs, ret, execVars>>

\* line 81, and the return of the new object to the caller
CtorBind ==
  /\ ctor.pc = "bind"
  /\ self' = [self EXCEPT !.producer_info = ctor.producer_info]
  /\ ctor' = [ctor EXCEPT !.pc = "done"]
  /\ held' = TRUE
  /\ UNCHANGED <<heap, callerRefs, ret, execVars>>

(* ------------------ the caller's use of the Channel --------------------- *)
Constructed == ctor.pc = "done" /\ held

\* Channel.get (lines 99-107): returns self._artifacts itself
Get ==
  /\ Constructed
  /\ ret' = [NoRet EXCEPT !.op = "get", !.ref = self.artifacts]
  /\ callerRefs' = callerRefs \cup {self.artifacts}
  /\ UNCHANGED <<heap, self, ctor, held, execVars>>

\* reading the property type_name (lines 83-85)
TypeName ==
  /\ Constructed
  /\ LET tn == TypeNameOf(self, heap) IN
       ret' = [NoRet EXCEPT !.op = "type_name", !.exc = tn.exc, !.str = tn.val]
  /\ UNCHANGED <<heap, self, ctor, held, callerRefs, execVars>>

\* Channel.__repr__ (lines 87-90): a pass over self._artifacts, then
\* self.type_name; of the string it returns the model keeps the type name.
Repr ==
  /\ Constructed
  /\ LET o == heap[self.artifacts]
         tn == TypeNameOf(self, heap)
     IN /\ heap' = [heap EXCEPT ![self.artifacts] = AfterIteration(o)]
        /\ ret' = [NoRet EXCEPT !.op = "repr", !.exc = tn.exc, !.str = tn.val]
  /\ UNCHANGED <<self, ctor, held, callerRefs, execVars>>

\* channel.producer_info = v: a plain attribute, assigned as line 81 does
SetProducerInfo(v) ==
  /\ Constructed
  /\ self' = [self EXCEPT !.producer_info = v]
  /\ UNCHANGED <<heap, ctor, held, callerRefs, ret, execVars>>

\* What the caller does with a list it holds a reference to, whether it made
\* the list itself or got it from get().
CallerAppend(o, a) ==
  /\ Constructed
  /\ o \in callerRefs /\ heap[o].kind = "list"
  /\ Len(heap[o].items) < MaxLen
  /\ heap' = [heap EXCEPT ![o].items = Append(@, a)]
  /\ UNCHANGED <<self, ctor, held, callerRefs, ret, execVars>>

CallerRemove(o, i) ==
  /\ Constructed
  /\ o \in callerRefs /\ heap[o].kind = "list"
  /\ i \in 1..Len(heap[o].items)
  /\ heap' = [heap EXCEPT ![o].items =
                [k \in 1..(Len(@) - 1) |-> IF k < i THEN @[k] ELSE @[k + 1]]]
  /\ UNCHANGED <<self, ctor, held, callerRefs, ret, execVars>>

CallerReplace(o, i, a) ==
  /\ Constructed
  /\ o \in callerRefs /\ heap[o].kind = "list"
  /\ i \in 1..Len(heap[o].items)
  /\ heap[o].items[i] # a
  /\ heap' = [heap EXCEPT ![o].items[i] = a]
  /\ UNCHANGED <<self, ctor, held, callerRefs, ret, execVars>>

ChannelOp ==
  \/ Get
  \/ TypeName
  \/ Repr
  \/ \E v \in ProducerInfos \cup {NoInfo} : SetProducerInfo(v)

CallerMutation ==
  \/ \E o \in callerRefs, a \in Artifacts : CallerAppend(o, a)
  \/ \E o \in callerRefs, i \in 1..MaxLen : CallerRemove(o, i)
  \/ \E o \in callerRefs, i \in 1..MaxLen, a \in Artifacts : CallerReplace(o, i, a)

Construction ==
  \/ \E t \in TypeArgs, a \in ArtifactArgs \cup {FreeObject},
        p \in ProducerInfos \cup {NoInfo} : CtorCall(t, a, p)
  \/ CtorCheckType
  \/ CtorStore
  \/ CtorValidate
  \/ CtorBind

Next == Construction \/ ChannelOp \/ CallerMutation

Spec == Init /\ [][Next]_vars

\* The Channel used through its own operations only.
NextOps == Construction \/ ChannelOp

SpecOps == Init /\ [][NextOps]_vars

(* --------------------------- Executor.Do -------------------------------- *)
\* Keys to the items in custom_config (executor.py lines 31-32)
TRAINING_ARGS_KEY == "ai_platform_training_args"
JOB_ID_KEY == "ai_platform_training_job_id"

\* Python's None, and the mark of a key that a dict does not hold
None == "None"
Missing == "<missing>"

\* exec_properties as far as Do reads it: 'custom_config' is missing, None
\* or a dict, and the dict holds each of the two keys or not.
EmptyDict == [kind |-> "dict", items |-> [k \in {TRAINING_ARGS_KEY, JOB_ID_KEY} |-> Missing]]
CustomConfigs ==
  { [kind |-> Missing, items |-> EmptyDict.items],
    [kind |-> None, items |-> EmptyDict.items] } \cup
  { [kind |-> "dict",
     items |-> [k \in {TRAINING_ARGS_KEY, JOB_ID_KEY} |->
                  IF k = TRAINING_ARGS_KEY THEN a ELSE j]] :
      a \in {Missing, None, "training_args"}, j \in {Missing, None, "job-1"} }

\* exec_properties.get('custom_config', {})
GetCustomConfig(cc) == IF cc.kind = Missing THEN EmptyDict ELSE cc

\* dict.get(key), which gives None for a key the dict does not hold
DictGet(d, k) == IF d.items[k] = Missing THEN None ELSE d.items[k]

\* variant of the test of line 64 that lets every value through
TrainingInputsMissingNever(training_inputs) == FALSE

\* the condition of line 64
TrainingInputsMissing(training_inputs) == training_inputs = None

NotFoundText == "'%s' not found in custom_config."

DoCall(cc) ==
  /\ exec.pc \in {"idle", "returned", "raised"}
  /\ exec.call < MaxCalls
  /\ exec' = [IdleExec EXCEPT !.pc = "log_startup", !.call = exec.call + 1,
                !.custom_config = cc.kind,
                !.args = cc.items[TRAINING_ARGS_KEY],
                !.job_id = cc.items[JOB_ID_KEY]]
  /\ UNCHANGED <<chanVars, jobs>>

ExecConfig == [kind |-> exec.custom_config,
               items |-> [k \in {TRAINING_ARGS_KEY, JOB_ID_KEY} |->
                            IF k = TRAINING_ARGS_KEY THEN exec.args ELSE exec.job_id]]

\* line 60
DoLogStartup ==
  /\ exec.pc = "log_startup"
  /\ exec' = [exec EXCEPT !.pc = "get_training_inputs"]
  /\ UNCHANGED <<chanVars, jobs>>

\* lines 62-63; None has no method get
DoGetTrainingInputs ==
  /\ exec.pc = "get_training_inputs"
  /\ LET custom_config == GetCustomConfig(ExecConfig) IN
     IF custom_config.kind = None
       THEN exec' = [exec EXCEPT !.pc = "raised", !.exc = AttributeError("NoneType", FALSE, "get")]
       ELSE exec' = [exec EXCEPT !.pc = "check_training_inputs",
                       !.training_inputs = DictGet(custom_config, TRAINING_ARGS_KEY)]
  /\ UNCHANGED <<chanVars, jobs>>

\* lines 64-67
DoCheckTrainingInputs ==
  /\ exec.pc = "check_training_inputs"
  /\ IF TrainingInputsMissing(exec.training_inputs)
       THEN exec' = [exec EXCEPT !.pc = "raised",
                       !.exc = ValueError(NotFoundText, TRAINING_ARGS_KEY)]
       ELSE exec' = [exec EXCEPT !.pc = "get_job_id"]
  /\ UNCHANGED <<chanVars, jobs>>

\* line 69
DoGetJobId ==
  /\ exec.pc = "get_job_id"
  /\ exec' = [exec EXCEPT !.pc = "start_aip_training",
                !.got_job_id = DictGet(GetCustomConfig(ExecConfig), JOB_ID_KEY)]
  /\ UNCHANGED <<chanVars, jobs>>

\* lines 72-74: the call of runner.start_aip_training
DoStartAipTraining ==
  /\ exec.pc = "start_aip_training"
  /\ jobs' = Append(jobs, [call |-> exec.call,
                           training_inputs |-> exec.training_inputs,
                           job_id |-> exec.got_job_id])
  /\ exec' = [exec EXCEPT !.pc = "in_runner"]
  /\ UNCHANGED chanVars

\* the runner returns, or raises RuntimeError when the job failed (line 58)
DoRunnerEnds(ok) ==
  /\ exec.pc = "in_runner"
  /\ IF ok
       THEN exec' = [exec EXCEPT !.pc = "returned", !.result = None]
       ELSE exec' = [exec EXCEPT !.pc = "raised",
                       !.exc = [type |-> "RuntimeError", text |-> "job failed", arg |-> ""]]
  /\ UNCHANGED <<chanVars, jobs>>

NextExec ==
  \/ \E cc \in CustomConfigs : DoCall(cc)
  \/ DoLogStartup
  \/ DoGetTrainingInputs
  \/ DoCheckTrainingInputs
  \/ DoGetJobId
  \/ DoStartAipTraining
  \/ \E ok \in BOOLEAN : DoRunnerEnds(ok)

SpecExec == Init /\ [][NextExec]_vars

(* ============================ properties ================================ *)
\* the artifacts a pass over the Channel's collection yields now
ChannelItems == Yielded(heap[self.artifacts])

\* the declared type is a class that is a subclass of Artifact
DeclaredTypeIsArtifactClass ==
  IsClass(ctor.type) /\ IsSubclass(ctor.type.name, "Artifact")

\* some artifact the caller passed has another type name than the declared type
GivenHasMismatch ==
  \E i \in 1..Len(ctor.given) : ctor.given[i].type_name # TYPE_NAME(ctor.type)

\* C1: type safety - on a constructed Channel, whatever its clients did with
\* it and with the collections they hold, every artifact of get() has the
\* Channel's type name.
TypeSafety ==
  Constructed =>
    \A i \in 1..Len(ChannelItems) :
      ChannelItems[i].type_name = TypeNameOf(self, heap).val

\* C2: construction validation - when any of the given artifacts, at any
\* position, has another type name than the declared type, the constructor
\* never gets past validation, ends with the type-mismatch ValueError, and
\* the caller never holds a Channel.
ConstructionValidation ==
  (ctor.pc # "idle" /\ DeclaredTypeIsArtifactClass /\ GivenHasMismatch) =>
    /\ ctor.pc \in {"check_type", "store", "validate", "raised"}
    /\ ~held
    /\ ctor.pc = "raised" =>
         ctor.exc.type = "ValueError" /\ ctor.exc.text = MismatchText

\* C2 witness: a mismatch in second place, after a matching first artifact,
\* has ended the constructor with the mismatch error and no Channel.
ConstructionValidationWitness ==
  /\ ctor.pc = "raised" /\ ctor.exc.text = MismatchText /\ ~held
  /\ Len(ctor.given) = 2
  /\ ctor.given[1].type_name = TYPE_NAME(ctor.type)
  /\ ctor.given[2].type_name # TYPE_NAME(ctor.type)

\* C3: no-type rejection - once the type test has run, the constructor goes
\* on exactly when type is a class that is a subclass of Artifact; otherwise
\* it has raised the ValueError about "type" with nothing stored in the
\* object, no list made, and no artifact looked at.
NoTypeRejection ==
  ctor.pc \notin {"idle", "check_type"} =>
    IF DeclaredTypeIsArtifactClass
      THEN ctor.exc.text # TypeArgText
      ELSE /\ ctor.pc = "raised"
           /\ ctor.exc = ValueError(TypeArgText, ReprOfType(ctor.type))
           /\ self = BlankSelf /\ ~held
           /\ heap[FreshObj] = FreeObject
           /\ ctor.artifact = NoArtifact /\ ctor.idx = 1
           /\ heap[ArgObj].kind = "iter" => heap[ArgObj].items = ctor.given

\* C3 witness: a class that is no Artifact, passed with artifacts, rejected.
NoTypeRejectionWitness ==
  /\ ctor.pc = "raised" /\ ctor.exc.text = TypeArgText
  /\ ctor.type.kind = "class" /\ Len(ctor.given) > 0

\* C4: producer_info is single-assignment - once it is bound to a value
\* other than None, no step binds it to a different value other than None.
ProducerInfoSingleAssignment ==
  [][(Constructed /\ ~self.producer_info.isNone /\ ~self'.producer_info.isNone)
       => self'.producer_info = self.producer_info]_vars

\* C5: get() returns a read-only view - no append, removal or replacement a
\* caller does on the handle that get() returned changes the artifacts the
\* Channel holds.
GetReturnsReadOnlyView ==
  [][(/\ Constructed /\ ret.op = "get"
      /\ \/ \E a \in Artifacts : CallerAppend(ret.ref, a)
         \/ \E i \in 1..MaxLen : CallerRemove(ret.ref, i)
         \/ \E i \in 1..MaxLen, a \in Artifacts : CallerReplace(ret.ref, i, a))
       => Yielded(heap'[self.artifacts]) = Yielded(heap[self.artifacts])]_vars

\* the custom_config of the current call of Do is a mapping (given or
\* defaulted) that does not hold ai_platform_training_args
LacksTrainingArgs ==
  exec.pc # "idle" /\ exec.custom_config # None /\ exec.args = Missing

\* C6: every call of start_aip_training carries training args that the
\* lookup found and that are not None; and a call of Do whose custom_config
\* lacks ai_platform_training_args never reaches the submission: it ends
\* with the ValueError about the key and has submitted nothing.
NoSubmissionWithoutTrainingArgs ==
  /\ \A i \in 1..Len(jobs) :
       jobs[i].training_inputs \notin {None, IdleExec.training_inputs}
  /\ exec.pc \in {"start_aip_training", "in_runner"} =>
       exec.training_inputs \notin {None, IdleExec.training_inputs}
  /\ LacksTrainingArgs =>
       /\ exec.pc \in {"log_startup", "get_training_inputs",
                       "check_training_inputs", "raised"}
       /\ exec.pc = "raised" =>
            exec.exc = ValueError(NotFoundText, TRAINING_ARGS_KEY)
       /\ \A i \in 1..Len(jobs) : jobs[i].call # exec.call

\* C6 witness: a second call of Do, with a dict that lacks the key, has
\* raised, and the only submission is the first call's.
NoSubmissionWitness ==
  /\ LacksTrainingArgs /\ exec.custom_config = "dict" /\ exec.pc = "raised"
  /\ exec.call = 2 /\ Len(jobs) = 1

\* C7: read stability and order - with the Channel used through its own
\* operations only, what get() returns yields exactly the artifacts given
\* to the constructor, in their order.
GetYieldsGivenArtifacts ==
  (Constructed /\ ret.op = "get") => Yielded(heap[ret.ref]) = ctor.given

\* C8: the error of a type mismatch names both the declared type name and
\* the type name of the artifact that did not match.
MismatchErrorNamesBothTypes ==
  (ctor.pc = "raised" /\ ctor.exc.text = MismatchText) =>
    {TYPE_NAME(ctor.type), ctor.artifact.type_name} \subseteq ErrorMentions(ctor.exc)

\* C9: no operation of the Channel (get, type_name, repr, assigning
\* producer_info) changes the type, the type name, the collection the
\* Channel refers to or the artifacts in it; the type is the one given to
\* the constructor.
TypeAndArtifactsFixed ==
  [][(Constructed /\ ChannelOp) =>
       /\ self'.type = self.type /\ self.type = ctor.type
       /\ TypeNameOf(self', heap') = TypeNameOf(self, heap)
       /\ self'.artifacts = self.artifacts
       /\ Yielded(heap'[self.artifacts]) = Yielded(heap[self.artifacts])]_vars

\* C9 witness: after repr, producer_info differs from the one given to the
\* constructor while a Channel of two artifacts still has both.
TypeAndArtifactsFixedWitness ==
  /\ Constructed /\ ret.op = "repr"
  /\ self.producer_info # ctor.producer_info
  /\ Len(ChannelItems) = 2 /\ ChannelItems = ctor.given

\* C10: errors are never deferred - no get(), type_name, repr or
\* producer_info assignment on a constructed Channel raises; and when the
\* constructor is past validation, it has looked at the whole collection and
\* every given artifact has the declared type name.
ErrorsNeverDeferred ==
  /\ ret.exc = NoExc
  /\ ctor.pc \in {"bind", "done"} => ~GivenHasMismatch
  /\ ctor.pc = "bind" => ~HasNext(heap[self.artifacts], ctor.idx)

\* C10 witness: type_name read without error from a Channel of two
\* artifacts after the caller put an artifact of another type in its list.
ErrorsNeverDeferredWitness ==
  /\ Constructed /\ ret.op = "type_name" /\ ret.str = "Model"
  /\ Len(ctor.given) = 2
  /\ \E i \in 1..Len(ChannelItems) : ChannelItems[i].type_name = "Examples"

====
